---- MODULE Spec2Model ----
(***************************************************************************)
(* Model of the crossword constraint-satisfaction solver                   *)
(* (src/crossword/generate.py, class CrosswordCreator): node consistency,  *)
(* AC-3 arc consistency and backtracking search with the MRV / degree and  *)
(* least-constraining-value heuristics.                                    *)
(*                                                                         *)
(* Words are sequences of letters.  Python indices are 0-based: the        *)
(* overlap map holds 0-based indices and word[k] of the code is w[k + 1].  *)
(***************************************************************************)
EXTENDS Integers, Sequences, FiniteSets, TLC

VARIABLES
    variables,   \* crossword.variables: the set of Variable objects
    words,       \* crossword.words: the word list
    varOrder,    \* iteration order of the dict self.domains
    domains,     \* self.domains: Variable -> set of words
    pc,          \* position of the control flow inside solve()
    queue,       \* ac3: the list `queue`
    qi,          \* ac3: 1-based position of the `for (x, y) in queue` loop
    revised,     \* ac3: value returned by the last self.revise(x, y)
    ac3Ret,      \* value returned by the last ac3() call
    ac3Caller,   \* who called ac3(): "solve" or "backtrack"
    assignment,  \* the dict `assignment` shared by all backtrack frames
    stack,       \* active backtrack frames: [var, values], and for each
                 \* frame the assignment on entry (entry) and the domain
                 \* store just before its last placement (saved)
    result       \* what solve() returned: "pending", "assignment", "None"

vars == <<variables, words, varOrder, domains, pc, queue, qi, revised,
          ac3Ret, ac3Caller, assignment, stack, result>>

-----------------------------------------------------------------------------
(* Bounds of the model *)

\* largest number of words in the word list
MaxWords == 4

\* the words a word list is drawn from
Universe ==
    { <<"a","a">>, <<"a","b">>, <<"b","a">>,
      <<"a","a","a">>, <<"a","b","a">>, <<"b","a","b">> }

-----------------------------------------------------------------------------
(* The puzzle model: Variable, overlaps, neighbors (module crossword) *)

ACROSS == "across"
DOWN == "down"

\* Variable(i, j, direction, length)
Variable(i, j, direction, length) ==
    [i |-> i, j |-> j, direction |-> direction, length |-> length]

\* Variable.cells: the cells of the run, in order
Cells(v) ==
    [k \in 1..v.length |->
        << v.i + (IF v.direction = DOWN THEN k - 1 ELSE 0),
           v.j + (IF v.direction = ACROSS THEN k - 1 ELSE 0) >>]

\* the value of overlaps[x, y] for variables that do not intersect
NoOverlap == << >>

\* 0-based cells.index(c)
CellIndex(cells, c) == (CHOOSE k \in 1..Len(cells) : cells[k] = c) - 1

\* crossword.overlaps[x, y]: NoOverlap, or the pair of 0-based indices
Overlaps(x, y) ==
    LET cx == Cells(x)
        cy == Cells(y)
        common == {cx[k] : k \in 1..Len(cx)} \cap {cy[k] : k \in 1..Len(cy)}
    IN  IF common = {} THEN NoOverlap
        ELSE LET c == CHOOSE c \in common : TRUE
             IN  << CellIndex(cx, c), CellIndex(cy, c) >>

\* crossword.neighbors(var)
Neighbors(vs, var) == {v \in vs : v # var /\ Overlaps(v, var) # NoOverlap}

\* the puzzles: one run; two runs crossing at their middle cells; a run
\* crossed by two shorter runs at its ends; two runs that do not intersect
Puzzles ==
    { { Variable(0, 0, ACROSS, 3) },
      { Variable(1, 0, ACROSS, 3), Variable(0, 1, DOWN, 3) },
      { Variable(1, 0, ACROSS, 3), Variable(0, 0, DOWN, 2),
        Variable(1, 2, DOWN, 2) },
      { Variable(0, 0, ACROSS, 3), Variable(2, 0, ACROSS, 2) } }

\* all orders in which a set can be iterated
Perms(S) ==
    {s \in [1..Cardinality(S) -> S] : \A e \in S : \E k \in DOMAIN s : s[k] = e}

\* the elements of a sequence
Range(s) == {s[k] : k \in DOMAIN s}

-----------------------------------------------------------------------------
(* CrosswordCreator *)

\* __init__: every variable starts with the whole word list
InitDomains(vs, ws) == [v \in vs |-> ws]

\* enforce_node_consistency comparing with `>`: longer words are kept
EnforceNodeConsistencyKeepsLonger(dom) ==
    [var \in DOMAIN dom |->
        dom[var] \ {word \in dom[var] : var.length > Len(word)}]

\* enforce_node_consistency
EnforceNodeConsistency(dom) ==
    [var \in DOMAIN dom |->
        dom[var] \ {word \in dom[var] : var.length # Len(word)}]

\* check demanding agreement with every word of domains[y]
CheckEveryWord(dom, x, y, word) ==
    LET no_of_letter_x == Overlaps(x, y)[1]
        no_of_letter_y == Overlaps(x, y)[2]
    IN  \A w \in dom[y] : word[no_of_letter_x + 1] = w[no_of_letter_y + 1]

\* check looking for agreement among the other words of domains[y] only
CheckOtherWord(dom, x, y, word) ==
    LET no_of_letter_x == Overlaps(x, y)[1]
        no_of_letter_y == Overlaps(x, y)[2]
    IN  \E w \in dom[y] :
            w # word /\ word[no_of_letter_x + 1] = w[no_of_letter_y + 1]

\* revise.check(shared, word): some word of domains[y] agrees at the overlap
Check(dom, x, y, word) ==
    LET no_of_letter_x == Overlaps(x, y)[1]
        no_of_letter_y == Overlaps(x, y)[2]
    IN  \E w \in dom[y] : word[no_of_letter_x + 1] = w[no_of_letter_y + 1]

\* revise returning True for every pair of neighbours
ReviseAlwaysTrue(dom, x, y) ==
    IF Overlaps(x, y) = NoOverlap
    THEN [domains |-> dom, ret |-> FALSE]
    ELSE LET inconsistent == {word \in dom[x] : ~Check(dom, x, y, word)}
         IN  [domains |-> [dom EXCEPT ![x] = dom[x] \ inconsistent],
              ret |-> TRUE]

\* revise assigning the unsupported words to domains[x]
ReviseKeepsInconsistent(dom, x, y) ==
    IF Overlaps(x, y) = NoOverlap
    THEN [domains |-> dom, ret |-> FALSE]
    ELSE LET inconsistent == {word \in dom[x] : ~Check(dom, x, y, word)}
         IN  IF inconsistent # {}
             THEN [domains |-> [dom EXCEPT ![x] = inconsistent],
                   ret |-> TRUE]
             ELSE [domains |-> dom, ret |-> FALSE]

\* revise(x, y): the new domain store and the returned boolean
Revise(dom, x, y) ==
    IF Overlaps(x, y) = NoOverlap
    THEN [domains |-> dom, ret |-> FALSE]
    ELSE LET inconsistent == {word \in dom[x] : ~Check(dom, x, y, word)}
         IN  IF inconsistent # {}
             THEN [domains |-> [dom EXCEPT ![x] = dom[x] \ inconsistent],
                   ret |-> TRUE]
             ELSE [domains |-> dom, ret |-> FALSE]

\* ac3: the initial queue, every ordered pair of distinct variables
RECURSIVE Flatten(_)
Flatten(ss) == IF ss = << >> THEN << >> ELSE Head(ss) \o Flatten(Tail(ss))

InitialQueue(arcs) ==
    Flatten([a \in 1..Len(arcs) |->
        LET x == arcs[a]
            other(y) == y # x
        IN  [b \in 1..Len(SelectSeq(arcs, other)) |->
                << x, SelectSeq(arcs, other)[b] >>]])

\* ac3 testing `len(self.domains[x]) <= 1`
DomainEmptyOrSingle(d) == Cardinality(d) <= 1

\* ac3: `len(self.domains[x]) == 0`
DomainEmpty(d) == Cardinality(d) = 0

\* ac3 appending no arc after a revision
RequeueNothing(x, order) == << >>

\* ac3 appending (x, neighbor) where (neighbor, x) belongs
RequeueSwapped(x, order) == [k \in 1..Len(order) |-> << x, order[k] >>]

\* ac3: the arcs appended after domains[x] shrank, for one iteration order
\* of crossword.neighbors(x)
Requeue(x, order) == [k \in 1..Len(order) |-> << order[k], x >>]

\* assignment_complete
AssignmentComplete(a) == \A var \in variables : var \in DOMAIN a

\* consistent without the check of the neighbours' overlap
ConsistentIgnoringOverlap(a) ==
    \A var \in DOMAIN a :
        /\ Len(a[var]) = var.length
        /\ \A v \in DOMAIN a : v # var => a[var] # a[v]

\* consistent
Consistent(a) ==
    \A var \in DOMAIN a :
        /\ Len(a[var]) = var.length
        /\ \A v \in DOMAIN a : v # var => a[var] # a[v]
        /\ \A neighbor \in Neighbors(variables, var) :
              (Overlaps(var, neighbor) # NoOverlap /\ neighbor \in DOMAIN a) =>
                 a[var][Overlaps(var, neighbor)[1] + 1]
                    = a[neighbor][Overlaps(var, neighbor)[2] + 1]

\* order_domain_values: `n += 1` over the neighbours, n[e] being the part
\* of n that neighbour e adds
RECURSIVE SumOver(_, _)
SumOver(n, S) ==
    IF S = {} THEN 0
    ELSE LET e == CHOOSE e \in S : TRUE
         IN  n[e] + SumOver(n, S \ {e})

\* order_domain_values: the number n computed for `word`
ConflictCount(dom, var, a, word) ==
    LET counted == {neighbor \in Neighbors(variables, var) :
                       neighbor \notin DOMAIN a
                       /\ Overlaps(var, neighbor) # NoOverlap}
        n == [neighbor \in counted |->
                Cardinality({w \in dom[neighbor] :
                    word[Overlaps(var, neighbor)[1] + 1]
                        # w[Overlaps(var, neighbor)[2] + 1]})]
    IN  SumOver(n, counted)

\* order_domain_values sorting with reverse=True
OrderDomainValuesDescending(dom, var, a) ==
    LET order == {word \in dom[var] : word \notin Range(a)}
    IN  {s \in Perms(order) :
            \A k \in 1..(Len(s) - 1) :
                ConflictCount(dom, var, a, s[k])
                    >= ConflictCount(dom, var, a, s[k + 1])}

\* order_domain_values: the lists it can return; the stable sort keeps words
\* of equal count in the iteration order of the set domains[var]
OrderDomainValues(dom, var, a) ==
    LET order == {word \in dom[var] : word \notin Range(a)}
    IN  {s \in Perms(order) :
            \A k \in 1..(Len(s) - 1) :
                ConflictCount(dom, var, a, s[k])
                    <= ConflictCount(dom, var, a, s[k + 1])}

\* select_unassigned_variable taking the first unassigned variable
SelectFirstUnassigned(dom, a) ==
    LET unassigned(var) == var \notin DOMAIN a
    IN  Head(SelectSeq(varOrder, unassigned))

\* select_unassigned_variable: `order` holds the unassigned variables of
\* the lowest domain size in iteration order; the stable ascending sort by
\* neighbour count puts the first of the lowest neighbour count in front
SelectUnassignedVariable(dom, a) ==
    LET unassigned(var) == var \notin DOMAIN a
        candidates == SelectSeq(varOrder, unassigned)
        lowest == CHOOSE m \in {Cardinality(dom[candidates[k]]) :
                                   k \in DOMAIN candidates} :
                     \A k \in DOMAIN candidates :
                         m <= Cardinality(dom[candidates[k]])
        tied(var) == Cardinality(dom[var]) = lowest
        order == SelectSeq(candidates, tied)
        degree(var) == Cardinality(Neighbors(variables, var))
        first == CHOOSE k \in DOMAIN order :
                    /\ \A l \in DOMAIN order : degree(order[k]) <= degree(order[l])
                    /\ \A l \in 1..(k - 1) : degree(order[l]) > degree(order[k])
    IN  order[first]

-----------------------------------------------------------------------------
(* The state machine of solve() *)

EmptyAssignment == [v \in {} |-> << >>]

Init ==
    /\ variables \in Puzzles
    /\ words \in {ws \in SUBSET Universe : Cardinality(ws) <= MaxWords}
    /\ varOrder \in Perms(variables)
    /\ domains = InitDomains(variables, words)
    /\ pc = "solve"
    /\ queue = << >>
    /\ qi = 1
    /\ revised = FALSE
    /\ ac3Ret = FALSE
    /\ ac3Caller = "solve"
    /\ assignment = EmptyAssignment
    /\ stack = << >>
    /\ result = "pending"

\* solve(): enforce_node_consistency(), then the call of ac3() builds its queue
Solve ==
    /\ pc = "solve"
    /\ domains' = EnforceNodeConsistency(domains)
    /\ queue' = InitialQueue(varOrder)
    /\ qi' = 1
    /\ ac3Caller' = "solve"
    /\ pc' = "ac3_loop"
    /\ UNCHANGED <<variables, words, varOrder, revised, ac3Ret, assignment,
                   stack, result>>

\* ac3: one iteration of `for (x, y) in queue`
Ac3Iter ==
    /\ pc = "ac3_loop"
    /\ qi <= Len(queue)
    /\ LET x == queue[qi][1]
           y == queue[qi][2]
           r == Revise(domains, x, y)
       IN  /\ domains' = r.domains
           /\ revised' = r.ret
           /\ IF r.ret /\ DomainEmpty(r.domains[x])
              THEN /\ ac3Ret' = FALSE
                   /\ pc' = "ac3_ret"
                   /\ UNCHANGED <<queue, qi>>
              ELSE /\ \E order \in Perms(Neighbors(variables, x)) :
                         queue' = IF r.ret THEN queue \o Requeue(x, order)
                                  ELSE queue
                   /\ qi' = qi + 1
                   /\ UNCHANGED <<ac3Ret, pc>>
    /\ UNCHANGED <<variables, words, varOrder, ac3Caller, assignment, stack,
                   result>>

\* ac3: the loop ran off the end of the queue, `return True`
Ac3Exhausted ==
    /\ pc = "ac3_loop"
    /\ qi > Len(queue)
    /\ ac3Ret' = TRUE
    /\ pc' = "ac3_ret"
    /\ UNCHANGED <<variables, words, varOrder, domains, queue, qi, revised,
                   ac3Caller, assignment, stack, result>>

\* solve(): ac3() returned, its value is dropped; backtrack(dict()) is called
SolveBacktrack ==
    /\ pc = "ac3_ret"
    /\ ac3Caller = "solve"
    /\ assignment' = EmptyAssignment
    /\ pc' = "bt_enter"
    /\ UNCHANGED <<variables, words, varOrder, domains, queue, qi, revised,
                   ac3Ret, ac3Caller, stack, result>>

\* backtrack: the assignment is complete and is returned through every frame
BacktrackComplete ==
    /\ pc = "bt_enter"
    /\ AssignmentComplete(assignment)
    /\ result' = "assignment"
    /\ stack' = << >>
    /\ pc' = "done"
    /\ UNCHANGED <<variables, words, varOrder, domains, queue, qi, revised,
                   ac3Ret, ac3Caller, assignment>>

\* backtrack: a new frame selects its variable and orders the values
BacktrackSelect ==
    /\ pc = "bt_enter"
    /\ ~AssignmentComplete(assignment)
    /\ \E var \in {SelectUnassignedVariable(domains, assignment)} :
           \E values \in OrderDomainValues(domains, var, assignment) :
               stack' = Append(stack, [var |-> var, values |-> values,
                                       entry |-> assignment,
                                       saved |-> domains])
    /\ pc' = "bt_loop"
    /\ UNCHANGED <<variables, words, varOrder, domains, queue, qi, revised,
                   ac3Ret, ac3Caller, assignment, result>>

\* the loop over the values trying the same value again
NextValueSame(s) == s

\* the loop over the values left by `break` where `continue` belongs
NextValueBreak(s) ==
    [s EXCEPT ![Len(s)].values = << >>]

\* the top frame moves on to its next value
NextValue(s) ==
    [s EXCEPT ![Len(s)].values = Tail(s[Len(s)].values)]

\* assignment[var] = value
Assign(a, var, value) ==
    [v \in DOMAIN a \cup {var} |-> IF v = var THEN value ELSE a[v]]

\* a placement that is never undone
PopNothing(a, var) == a

\* assignment.pop(var)
Pop(a, var) == [v \in DOMAIN a \ {var} |-> a[v]]

\* backtrack that also narrows self.domains[var] to the placed value before
\* it calls ac3(), and leaves the store as it is when it undoes the placement
BacktrackTryNarrowsDomain ==
    /\ pc = "bt_loop"
    /\ stack[Len(stack)].values # << >>
    /\ LET var == stack[Len(stack)].var
           value == Head(stack[Len(stack)].values)
           placed == Assign(assignment, var, value)
           before == [stack EXCEPT ![Len(stack)].saved = domains]
       IN  IF ~Consistent(placed)
           THEN /\ assignment' = Pop(placed, var)
                /\ stack' = NextValue(before)
                /\ UNCHANGED <<pc, queue, qi, ac3Caller, domains>>
           ELSE /\ assignment' = placed
                /\ domains' = [domains EXCEPT ![var] = {value}]
                /\ queue' = InitialQueue(varOrder)
                /\ qi' = 1
                /\ ac3Caller' = "backtrack"
                /\ pc' = "ac3_loop"
                /\ stack' = before
    /\ UNCHANGED <<variables, words, varOrder, revised, ac3Ret, result>>

\* backtrack: place the next value; undo it when the assignment is not
\* consistent, otherwise call ac3()
BacktrackTry ==
    /\ pc = "bt_loop"
    /\ stack[Len(stack)].values # << >>
    /\ LET var == stack[Len(stack)].var
           value == Head(stack[Len(stack)].values)
           placed == Assign(assignment, var, value)
           before == [stack EXCEPT ![Len(stack)].saved = domains]
       IN  IF ~Consistent(placed)
           THEN /\ assignment' = Pop(placed, var)
                /\ stack' = NextValue(before)
                /\ UNCHANGED <<pc, queue, qi, ac3Caller>>
           ELSE /\ assignment' = placed
                /\ queue' = InitialQueue(varOrder)
                /\ qi' = 1
                /\ ac3Caller' = "backtrack"
                /\ pc' = "ac3_loop"
                /\ stack' = before
    /\ UNCHANGED <<variables, words, varOrder, domains, revised, ac3Ret,
                   result>>

\* backtrack: ac3() returned; undo the placement when it failed, else recurse
BacktrackAfterAc3 ==
    /\ pc = "ac3_ret"
    /\ ac3Caller = "backtrack"
    /\ IF ~ac3Ret
       THEN /\ assignment' = Pop(assignment, stack[Len(stack)].var)
            /\ stack' = NextValue(stack)
            /\ pc' = "bt_loop"
       ELSE /\ pc' = "bt_enter"
            /\ UNCHANGED <<assignment, stack>>
    /\ UNCHANGED <<variables, words, varOrder, domains, queue, qi, revised,
                   ac3Ret, ac3Caller, result>>

\* backtrack ending in `return assignment`: the frame that ran out of values
\* returns the assignment, which every caller passes on as a result
BacktrackFailReturnsAssignment ==
    /\ pc = "bt_loop"
    /\ stack[Len(stack)].values = << >>
    /\ stack' = << >>
    /\ result' = "assignment"
    /\ pc' = "done"
    /\ UNCHANGED <<variables, words, varOrder, domains, queue, qi, revised,
                   ac3Ret, ac3Caller, assignment>>

\* backtrack: the values are exhausted, the frame returns None; the caller
\* undoes its own placement and goes on, or solve() returns None
BacktrackFail ==
    /\ pc = "bt_loop"
    /\ stack[Len(stack)].values = << >>
    /\ IF Len(stack) = 1
       THEN /\ stack' = << >>
            /\ result' = "None"
            /\ pc' = "done"
            /\ UNCHANGED assignment
       ELSE /\ assignment' = Pop(assignment, stack[Len(stack) - 1].var)
            /\ stack' = NextValue(SubSeq(stack, 1, Len(stack) - 1))
            /\ UNCHANGED <<pc, result>>
    /\ UNCHANGED <<variables, words, varOrder, domains, queue, qi, revised,
                   ac3Ret, ac3Caller>>

Next ==
    \/ Solve
    \/ Ac3Iter
    \/ Ac3Exhausted
    \/ SolveBacktrack
    \/ BacktrackComplete
    \/ BacktrackSelect
    \/ BacktrackTry
    \/ BacktrackAfterAc3
    \/ BacktrackFail

Spec == Init /\ [][Next]_vars

\* solve() is one sequential computation: while a step is possible, the
\* interpreter takes it
FairSpec == Spec /\ WF_vars(Next)

-----------------------------------------------------------------------------
(* Properties *)

\* the unassigned variables of an assignment
Unassigned(a) == variables \ DOMAIN a

\* number of neighbours of a variable
Degree(var) == Cardinality(Neighbors(variables, var))

\* a is a solution of the puzzle: complete, every word of its variable's
\* length, all words distinct, neighbours agreeing at their overlap
IsSolution(a) ==
    /\ DOMAIN a = variables
    /\ \A v \in variables : Len(a[v]) = v.length
    /\ \A v1, v2 \in variables : v1 # v2 => a[v1] # a[v2]
    /\ \A v1, v2 \in variables :
          (v1 # v2 /\ v2 \in Neighbors(variables, v1)) =>
             a[v1][Overlaps(v1, v2)[1] + 1] = a[v2][Overlaps(v1, v2)[2] + 1]

\* some assignment of word-list words solves the puzzle
HasSolution == \E a \in [variables -> words] : IsSolution(a)

\* word of domain(x) has a word of domain(y) agreeing at overlap(x, y)
Supported(dom, x, y, word) ==
    \E w \in dom[y] :
        word[Overlaps(x, y)[1] + 1] = w[Overlaps(x, y)[2] + 1]

\* the domain store is arc consistent
ArcConsistent(dom) ==
    \A x, y \in variables :
        (x # y /\ y \in Neighbors(variables, x)) =>
            \A word \in dom[x] : Supported(dom, x, y, word)

\* C1: an assignment returned by solve() is complete, every word has its
\* variable's length, the words are pairwise distinct and neighbouring
\* variables agree at their overlap.
C1_ReturnedAssignmentIsSolution ==
    result = "assignment" => IsSolution(assignment)

C1_Witness ==
    /\ result = "assignment"
    /\ Cardinality(variables) = 3
    /\ IsSolution(assignment)

\* C2: solve() returns None only when no complete assignment of word-list
\* words satisfies the length, distinctness and overlap constraints.
C2_NoneOnlyWhenUnsolvable ==
    result = "None" => ~HasSolution

C2_Witness ==
    /\ pc = "done"
    /\ HasSolution
    /\ result = "assignment"
    /\ \E v \in variables : Cardinality(domains[v]) >= 2

\* C3: once enforce_node_consistency() has run, every word of every domain
\* has the length of its variable, in every later state.
C3_NodeConsistent ==
    pc # "solve" =>
        \A v \in variables : \A w \in domains[v] : Len(w) = v.length

C3_Witness ==
    /\ pc = "done"
    /\ \E w1, w2 \in words : Len(w1) # Len(w2)
    /\ \E v \in variables : domains[v] # {}

\* C4: when ac3() returns true the domain store is arc consistent.
C4_Ac3TrueIsArcConsistent ==
    (pc = "ac3_ret" /\ ac3Ret) => ArcConsistent(domains)

C4_Witness ==
    /\ pc = "ac3_ret"
    /\ ac3Ret
    /\ ac3Caller = "solve"
    /\ Len(queue) > Cardinality(variables) * (Cardinality(variables) - 1)
    /\ \A v \in variables : domains[v] # {}

\* C5: when ac3() returns true every variable's domain is non-empty.
C5_Ac3TrueNoEmptyDomain ==
    (pc = "ac3_ret" /\ ac3Ret) => \A v \in variables : domains[v] # {}

\* C6: when ac3() returns false some variable's domain is empty.
C6_Ac3FalseHasEmptyDomain ==
    (pc = "ac3_ret" /\ ~ac3Ret) => \E v \in variables : domains[v] = {}

C6_Witness ==
    /\ pc = "ac3_ret"
    /\ ~ac3Ret
    /\ \E v \in variables : domains[v] = {}

\* C7: on an arc consistent domain store ac3() removes no word from any
\* domain and returns true: every step of ac3 taken from an arc consistent
\* store leaves the store as it is, and a return from it returns true.
C7_Ac3FixedPoint ==
    [][(pc = "ac3_loop" /\ ArcConsistent(domains)) =>
          /\ domains' = domains
          /\ (pc' = "ac3_ret" => ac3Ret')]_vars

C7_Witness ==
    /\ pc = "ac3_ret"
    /\ ac3Caller = "backtrack"
    /\ ac3Ret
    /\ ArcConsistent(domains)
    /\ \E v \in variables : Cardinality(domains[v]) >= 2

\* C8: revise(x, y) returns true exactly when domain(x) lost a word; for x
\* and y that are not neighbours it returns false and no domain changes.
C8_ReviseTrueIffShrank ==
    [][(pc = "ac3_loop" /\ qi <= Len(queue)) =>
          LET x == queue[qi][1]
              y == queue[qi][2]
          IN  /\ revised' = (\E w \in domains[x] : w \notin domains'[x])
              /\ (y \notin Neighbors(variables, x) =>
                     ~revised' /\ domains' = domains)]_vars

C8_Witness ==
    /\ pc = "ac3_loop"
    /\ revised
    /\ qi > 1
    /\ domains[queue[qi - 1][1]] # {}

\* C9: select_unassigned_variable returns, among the unassigned variables
\* of smallest domain size, one of largest neighbour count.
C9_SelectTieByLargestDegree ==
    [][(pc = "bt_enter" /\ ~AssignmentComplete(assignment)) =>
          LET var == stack'[Len(stack')].var
          IN  \A u \in Unassigned(assignment) :
                  Cardinality(domains[u]) = Cardinality(domains[var])
                      => Degree(var) >= Degree(u)]_vars

\* C10: for an incomplete assignment select_unassigned_variable returns a
\* variable that is not assigned and whose domain size is the minimum over
\* the unassigned variables.
C10_SelectMinimumRemainingValues ==
    [][(pc = "bt_enter" /\ ~AssignmentComplete(assignment)) =>
          LET var == stack'[Len(stack')].var
          IN  /\ var \in Unassigned(assignment)
              /\ \A u \in Unassigned(assignment) :
                    Cardinality(domains[var]) <= Cardinality(domains[u])]_vars

C10_Witness ==
    /\ pc = "bt_loop"
    /\ stack # << >>
    /\ stack[Len(stack)].var \in Unassigned(assignment)
    /\ \E u \in Unassigned(assignment) :
          Cardinality(domains[u]) > Cardinality(domains[stack[Len(stack)].var])

\* the conflicts of a word of var: the pairs of an unassigned neighbour and
\* a word of its domain whose overlap character differs from the word's
Conflicts(var, a, word) ==
    {nw \in Unassigned(a) \X words :
        /\ nw[1] \in Neighbors(variables, var)
        /\ nw[2] \in domains[nw[1]]
        /\ word[Overlaps(var, nw[1])[1] + 1]
              # nw[2][Overlaps(var, nw[1])[2] + 1]}

\* C11: order_domain_values(var, assignment) returns the words of
\* domain(var) that are not a value of the assignment, each once, in
\* ascending order of their number of conflicts with the domains of var's
\* unassigned neighbours.
C11_OrderDomainValuesAscending ==
    [][(pc = "bt_enter" /\ ~AssignmentComplete(assignment)) =>
          LET var == stack'[Len(stack')].var
              values == stack'[Len(stack')].values
          IN  /\ Range(values) = domains[var] \ Range(assignment)
              /\ Len(values) = Cardinality(Range(values))
              /\ \A k, l \in DOMAIN values :
                    k < l => Cardinality(Conflicts(var, assignment, values[k]))
                          <= Cardinality(Conflicts(var, assignment, values[l]))]_vars

C11_Witness ==
    /\ pc = "bt_loop"
    /\ stack # << >>
    /\ LET var == stack[Len(stack)].var
           values == stack[Len(stack)].values
       IN  /\ Len(values) >= 2
           /\ Range(values) = domains[var] \ Range(assignment)
           /\ Cardinality(Conflicts(var, assignment, values[1]))
                 < Cardinality(Conflicts(var, assignment, values[Len(values)]))

\* the word list has no word of the length of some variable
LacksWord(v) == \A w \in words : Len(w) # v.length

\* C12: when the word list has no word of the length some variable needs,
\* solve() returns None, whether or not that variable has neighbours: it
\* never returns an assignment and its run ends with the result None.
C12_NoWordOfLengthGivesNone ==
    (\E v \in variables : LacksWord(v)) =>
        /\ result # "assignment"
        /\ (pc = "done" => result = "None")

C12_Witness ==
    /\ pc = "done"
    /\ result = "None"
    /\ words # {}
    /\ \E v \in variables : LacksWord(v) /\ Neighbors(variables, v) # {}
    /\ \E v \in variables : ~LacksWord(v)

\* C13: the success or failure of solve() is the same in every run on the
\* same puzzle and word list, whatever the iteration orders and the choices
\* among tied variables and words: it ends with an assignment exactly when
\* the puzzle has a solution, and every assignment returned is a solution.
C13_OutcomeDeterminedByInput ==
    pc = "done" =>
        /\ result \in {"assignment", "None"}
        /\ (result = "assignment") = HasSolution
        /\ (result = "assignment" => IsSolution(assignment))

C13_Witness ==
    /\ pc = "done"
    /\ result = "assignment"
    /\ \E a \in [variables -> words] : a # assignment /\ IsSolution(a)

\* the step undoes a tentative placement: a frame that stays on the stack
\* moves on to its next value
UndoesPlacement ==
    /\ pc \in {"bt_loop", "ac3_ret"}
    /\ Len(stack') >= 1
    /\ Len(stack') <= Len(stack)
    /\ Len(stack'[Len(stack')].values) < Len(stack[Len(stack')].values)

\* C14: whenever backtrack undoes a tentative placement, after an
\* inconsistency, a failed ac3 or a failed recursion, every domain holds
\* exactly the words it held just before that placement was made.
C14_DomainsAsBeforePlacement ==
    [][UndoesPlacement => domains' = stack'[Len(stack')].saved]_vars

C14_Witness ==
    /\ pc = "bt_loop"
    /\ ac3Caller = "backtrack"
    /\ Len(stack) = 1
    /\ assignment = EmptyAssignment
    /\ domains = stack[1].saved
    /\ Len(stack[1].values) < Cardinality(domains[stack[1].var])

\* C15: for neighbouring x and y, revise(x, y) removes from domain(x)
\* exactly the words without a word of domain(y) agreeing at the overlap,
\* and leaves domain(y) and every other domain unchanged.
C15_ReviseRemovesExactlyUnsupported ==
    [][(pc = "ac3_loop" /\ qi <= Len(queue)
            /\ queue[qi][2] \in Neighbors(variables, queue[qi][1])) =>
          LET x == queue[qi][1]
              y == queue[qi][2]
          IN  /\ domains'[x] =
                     {w \in domains[x] : Supported(domains, x, y, w)}
              /\ \A v \in variables \ {x} : domains'[v] = domains[v]]_vars

C15_Witness ==
    /\ pc = "ac3_loop"
    /\ revised
    /\ qi > 1
    /\ queue[qi - 1][2] \in Neighbors(variables, queue[qi - 1][1])
    /\ Cardinality(domains[queue[qi - 1][2]]) >= 2
    /\ \E w \in words : /\ Len(w) = queue[qi - 1][1].length
                        /\ w \notin domains[queue[qi - 1][1]]
    /\ domains[queue[qi - 1][1]] # {}

\* the step is an iteration of ac3 whose revise(x, y) shrank domain(x)
\* without emptying it
ShrinksWithoutEmptying ==
    /\ pc = "ac3_loop"
    /\ qi <= Len(queue)
    /\ revised'
    /\ domains'[queue[qi][1]] # {}

\* the arcs the step appended to the queue
Appended == SubSeq(queue', Len(queue) + 1, Len(queue'))

\* C16 as stated: when revise(x, y) shrinks domain(x) without emptying
\* it, the arcs added to the queue are exactly (neighbor, x) for every
\* neighbour of x other than y, and (y, x) is not added.
C16_RequeuesNeighboursExceptY ==
    [][ShrinksWithoutEmptying =>
          LET x == queue[qi][1]
              y == queue[qi][2]
              others == Neighbors(variables, x) \ {y}
          IN  /\ Range(Appended) = {<< n, x >> : n \in others}
              /\ Len(Appended) = Cardinality(others)
              /\ << y, x >> \notin Range(Appended)]_vars

\* C16 amended: when revise(x, y) shrinks domain(x) without emptying it,
\* the arcs added to the queue are exactly (neighbor, x) for every
\* neighbour of x, each once, the arc (y, x) among them.
C16_RequeuesEveryNeighbour ==
    [][ShrinksWithoutEmptying =>
          LET x == queue[qi][1]
              y == queue[qi][2]
          IN  /\ Range(Appended) = {<< n, x >> : n \in Neighbors(variables, x)}
              /\ Len(Appended) = Cardinality(Neighbors(variables, x))
              /\ << y, x >> \in Range(Appended)]_vars

C16_Witness ==
    /\ pc = "ac3_loop"
    /\ revised
    /\ qi > 1
    /\ domains[queue[qi - 1][1]] # {}
    /\ Cardinality(Neighbors(variables, queue[qi - 1][1])) = 2
    /\ \E k \in (Cardinality(variables) * (Cardinality(variables) - 1) + 1)
                    ..Len(queue) :
          queue[k] = << queue[qi - 1][2], queue[qi - 1][1] >>

\* C17: solve() terminates: every ac3 run comes to its return, solve()
\* comes to its result, an assignment or None, and the number of active
\* backtrack frames never exceeds the number of variables.
C17_SolveTerminates ==
    /\ <>(pc = "done" /\ result \in {"assignment", "None"})
    /\ (pc = "ac3_loop" ~> pc = "ac3_ret")
    /\ [](Len(stack) <= Cardinality(variables))

C17_Witness ==
    /\ pc = "done"
    /\ result = "None"
    /\ ac3Caller = "backtrack"
    /\ Cardinality(variables) = 3
    /\ \A v \in variables : domains[v] # {}

\* C18: when a call of backtrack returns None, the assignment holds exactly
\* the entries it held when the call was entered: at the `return None` of
\* a frame, and when solve() has returned None.
C18_FailureLeavesAssignmentAsEntered ==
    /\ (pc = "bt_loop" /\ stack[Len(stack)].values = << >>) =>
           assignment = stack[Len(stack)].entry
    /\ result = "None" => assignment = EmptyAssignment

C18_Witness ==
    /\ pc = "bt_loop"
    /\ Len(stack) >= 2
    /\ stack[Len(stack)].values = << >>
    /\ assignment = stack[Len(stack)].entry
    /\ assignment # EmptyAssignment
    /\ \E w \in domains[stack[Len(stack)].var] : w \notin Range(assignment)

====
